---- MODULE Spec2Model ----
(***************************************************************************)
(* A model of src/helpers.rs of rust-web3: the value-decoder future        *)
(* CallFuture, the request builder, the result interpreters and the mock   *)
(* TestTransport of the test module.                                       *)
(*                                                                         *)
(* The four parts share no state. A behaviour exercises one of them, which  *)
(* Init chooses (scenario), so the reachable states are the union of the   *)
(* parts' states and not their product.                                    *)
(***************************************************************************)
EXTENDS Integers, Sequences, FiniteSets, TLC

\* ------------------------------------------------------------------ bounds

\* Polls of one CallFuture that a run explores.
MaxPolls == 3
\* Length of the Vec<rpc::Output> handed to to_results_from_outputs.
MaxBatch == 3
\* Length of the params vector handed to build_request.
MaxParams == 2
\* Requests prepared on one TestTransport.
MaxRequests == 2
\* Responses queued in one TestTransport since the latest set_response.
MaxQueue == 3

\* ------------------------------------------------- wire values and results

\* rpc::Value (serde_json::Value), a tag followed by the payload.
Null == <<"Null">>
Bool(b) == <<"Bool", b>>
Number(n) == <<"Number", n>>
String(s) == <<"String", s>>

\* Result<T, E>
Ok(v) == <<"Ok", v>>
Err(e) == <<"Err", e>>
IsOk(r) == r[1] = "Ok"
IsErr(r) == r[1] = "Err"

\* error::Error, the variants this file constructs or passes through.
ErrUnreachable == <<"Unreachable">>
ErrRpc(e) == <<"Rpc", e>>
ErrDecoder(msg) == <<"Decoder", msg>>
ErrTransport(msg) == <<"Transport", msg>>

\* Poll<T>
Pending == <<"Pending">>
Ready(x) == <<"Ready", x>>
IsReady(p) == p[1] = "Ready"

\* ----------------------------------------------------------- CallFuture

\* The wire values an inner future may yield.
FutureValues ==
    {Null, Bool(TRUE), Number(-1), Number(5), Number(300), String("0x1b4")}

\* The target types T a CallFuture<T, F> is instantiated with.
TargetTypes == {"bool", "u8", "u64", "String"}

\* The results an inner future F: Future<Output = error::Result<rpc::Value>>
\* may complete with.
InnerResults ==
    {Ok(v) : v \in FutureValues} \cup {Err(ErrTransport("timeout")), Err(ErrUnreachable)}

\* u8::MAX, the largest number serde accepts for the target type u8.
U8Max == 255

\* from_value followed by unwrap_or_default: a value that does not fit
\* decodes to T's default instead of an error (used by a faulty variant below).
from_value_OrDefault(x, T) ==
    CASE T = "bool" ->
           IF x[1] = "Bool" THEN Ok(<<"bool", x[2]>>) ELSE Ok(<<"bool", FALSE>>)
      [] T \in {"u64", "u8"} ->
           IF x[1] = "Number" /\ x[2] >= 0 /\ (T = "u64" \/ x[2] <= U8Max)
           THEN Ok(<<T, x[2]>>)
           ELSE Ok(<<T, 0>>)
      [] T = "String" ->
           IF x[1] = "String" THEN Ok(<<"String", x[2]>>) ELSE Ok(<<"String", "">>)

\* serde_json::from_value::<T>(x).map_err(Into::into): the typed value, or
\* the serde error converted to error::Error::Decoder. A value of another
\* kind is an invalid type, a number outside T's range an invalid value.
Mismatch(x, T) == Err(ErrDecoder(<<"invalid type", x[1], T>>))
OutOfRange(x, T) == Err(ErrDecoder(<<"invalid value", x[2], T>>))
from_value(x, T) ==
    CASE T = "bool" ->
           IF x[1] = "Bool" THEN Ok(<<"bool", x[2]>>) ELSE Mismatch(x, T)
      [] T = "u64" ->
           IF x[1] = "Number"
           THEN IF x[2] >= 0 THEN Ok(<<"u64", x[2]>>) ELSE OutOfRange(x, T)
           ELSE Mismatch(x, T)
      [] T = "u8" ->
           IF x[1] = "Number"
           THEN IF x[2] >= 0 /\ x[2] <= U8Max
                THEN Ok(<<"u8", x[2]>>)
                ELSE OutOfRange(x, T)
           ELSE Mismatch(x, T)
      [] T = "String" ->
           IF x[1] = "String" THEN Ok(<<"String", x[2]>>) ELSE Mismatch(x, T)

\* A faulty variant of and_then_decode: the closure ends in unwrap_or_default, so a
\* wire value that does not fit yields T's default.
and_then_decode_OrDefault(x, T) ==
    IF IsOk(x)
    THEN [ret |-> from_value_OrDefault(x[2], T), calls |-> 1]
    ELSE [ret |-> x, calls |-> 0]

\* A faulty variant of and_then_decode: map_err is applied to the whole result, so a
\* transport error comes out as a Decoder error.
and_then_decode_RewrapsErr(x, T) ==
    IF IsOk(x)
    THEN [ret |-> from_value(x[2], T), calls |-> 1]
    ELSE [ret |-> Err(ErrDecoder(<<"wrapped", x[2][1], T>>)), calls |-> 0]

\* Result::and_then with the decoding closure: the closure runs only on Ok.
\* calls is the number of times from_value was invoked.
and_then_decode(x, T) ==
    IF IsOk(x)
    THEN [ret |-> from_value(x[2], T), calls |-> 1]
    ELSE [ret |-> x, calls |-> 0]

\* A faulty variant of CallFuturePoll: without ready!, a Pending inner future is
\* reported as a finished, failed call.
CallFuturePoll_NoReadyMacro(innerPoll, T) ==
    IF innerPoll = Pending
    THEN [ret |-> Ready(Err(ErrUnreachable)), calls |-> 0]
    ELSE LET d == and_then_decode(innerPoll[2], T)
         IN  [ret |-> Ready(d.ret), calls |-> d.calls]

\* A faulty variant of CallFuturePoll: the decoder runs in every poll, on Null while
\* the inner future is Pending, and its outcome is then thrown away.
CallFuturePoll_EagerDecode(innerPoll, T) ==
    IF innerPoll = Pending
    THEN [ret |-> Pending, calls |-> 1]
    ELSE LET d == and_then_decode(innerPoll[2], T)
         IN  [ret |-> Ready(d.ret), calls |-> d.calls]

\* The body of CallFuture::poll, given what self.inner.poll_unpin(ctx)
\* returned: ready! returns Pending early, otherwise the result is decoded.
CallFuturePoll(innerPoll, T) ==
    IF innerPoll = Pending
    THEN [ret |-> Pending, calls |-> 0]
    ELSE LET d == and_then_decode(innerPoll[2], T)
         IN  [ret |-> Ready(d.ret), calls |-> d.calls]


\* ------------------------------------------------------ result interpreter

\* Option<T>: None is the empty sequence, Some(x) the one-element sequence.
NoneOpt == <<>>
Some(x) == <<x>>

\* rpc::Error {code, message, data: Option<Value>}
RpcErrors ==
    { [code |-> -32601, message |-> "Method not found", data |-> NoneOpt],
      [code |-> -32000, message |-> "boom", data |-> NoneOpt],
      [code |-> -32000, message |-> "boom", data |-> Some(String("0xdead"))] }

\* rpc::Output: Success {result, id} or Failure {error, id}.
Success(result, id) == <<"Success", [result |-> result, id |-> id]>>
Failure(error, id) == <<"Failure", [error |-> error, id |-> id]>>

Outputs ==
    {Success(v, 1) : v \in {Number(10), String("0x1b4")}}
        \cup {Failure(e, 1) : e \in RpcErrors}

\* A faulty variant of to_result_from_output: the error is rebuilt from its code and
\* message, and its data is lost.
to_result_from_output_DropsData(output) ==
    IF output[1] = "Success"
    THEN Ok(output[2].result)
    ELSE Err(ErrRpc([code |-> output[2].error.code,
                     message |-> output[2].error.message,
                     data |-> NoneOpt]))

\* to_result_from_output: the match on the two variants of rpc::Output.
to_result_from_output(output) ==
    IF output[1] = "Success"
    THEN Ok(output[2].result)
    ELSE Err(ErrRpc(output[2].error))

\* outputs.into_iter().map(to_result_from_output).collect() into a Vec.
RECURSIVE map_collect(_)
map_collect(outputs) ==
    IF outputs = <<>>
    THEN <<>>
    ELSE <<to_result_from_output(Head(outputs))>> \o map_collect(Tail(outputs))

\* A faulty variant of to_results_from_outputs: collect() into a Result<Vec<_>, _>,
\* which stops at the first failure and returns it.
RECURSIVE first_failure(_)
first_failure(outputs) ==
    IF outputs = <<>>
    THEN NoneOpt
    ELSE IF Head(outputs)[1] = "Failure"
         THEN Some(Head(outputs)[2].error)
         ELSE first_failure(Tail(outputs))
to_results_from_outputs_ShortCircuit(outputs) ==
    IF first_failure(outputs) = NoneOpt
    THEN Ok(map_collect(outputs))
    ELSE Err(ErrRpc(first_failure(outputs)[1]))

\* to_results_from_outputs: the collected Vec, wrapped in Ok.
to_results_from_outputs(outputs) == Ok(map_collect(outputs))

\* -------------------------------------------------------- request builder

\* rpc::Version::V2, which serializes as "2.0".
V2 == "2.0"

\* A faulty variant of UsizeAsU64: the id is cast to u16, which truncates.
UsizeAsU64_Truncates(id) == id % 65536

\* `id as u64` of a usize: the cast zero-extends and loses nothing, usize
\* being at most 64 bits wide.
UsizeAsU64(id) == id

\* build_request: rpc::Call::MethodCall(rpc::MethodCall {..}).
build_request(id, method, params) ==
    <<"MethodCall",
      [jsonrpc |-> Some(V2),
       method  |-> method,
       params  |-> <<"Array", params>>,
       id      |-> <<"Num", UsizeAsU64(id)>>]>>

\* The arguments build_request is called with.
BuildIds == {0, 1, 2, 65536}
BuildMethods == {"eth_blockNumber", "eth_call"}
BuildValues == {Number(1), String("latest"), Null}
RECURSIVE SeqsUpTo(_, _)
SeqsUpTo(S, n) ==
    IF n = 0
    THEN {<<>>}
    ELSE LET shorter == SeqsUpTo(S, n - 1)
         IN  shorter \cup {Append(s, x) : s \in shorter, x \in S}

\* ---------------------------------------------------------- TestTransport

\* A faulty variant of pop_front: pop_back, the newest element instead of the oldest.
pop_back(q) ==
    IF q = <<>>
    THEN [item |-> NoneOpt, rest |-> <<>>]
    ELSE [item |-> Some(q[Len(q)]), rest |-> SubSeq(q, 1, Len(q) - 1)]

\* VecDeque::pop_front: the front element, if any, and the rest.
pop_front(q) ==
    IF q = <<>>
    THEN [item |-> NoneOpt, rest |-> <<>>]
    ELSE [item |-> Some(Head(q)), rest |-> Tail(q)]

\* VecDeque::push_back
push_back(q, v) == Append(q, v)

\* The match in TestTransport::send on what pop_front returned: the value
\* the returned future::ready resolves to.
send_result(item) ==
    IF item = NoneOpt THEN Err(ErrUnreachable) ELSE Ok(item[1])

\* TestTransport::prepare: the Call built, the request recorded, and the
\* RequestId returned (the number of requests recorded so far).
prepare(reqs, method, params) ==
    LET request == build_request(1, method, params)
        pushed  == Append(reqs, <<method, params>>)
    IN  [requests |-> pushed, id |-> Len(pushed), call |-> request]

\* The responses and requests a test uses.
TransportValues == {Number(10), String("0x1b4")}
\* An (id, request) pair handed to send without a prepare on this transport.
Unprepared == [id |-> 7, call |-> build_request(7, "eth_call", <<>>)]
TransportMethods == {"eth_blockNumber", "eth_call"}
TransportParams == {<<>>, <<String("latest")>>}

\* ------------------------------------------------------------------ state

VARIABLES
    scenario,     \* the part of helpers.rs the behaviour exercises
    \* CallFuture<T, F>
    target,       \* the type parameter T
    futState,     \* "none" | "alive" | "dropped"
    innerState,   \* the wrapped future: "none" | "pending" (has not returned
                  \* Ready to this CallFuture) | "completed" | "dropped"
    lastInner,    \* what the inner future returned in the latest poll
    lastOut,      \* what CallFuture::poll returned in the latest poll
    lastCalls,    \* from_value invocations in the latest poll
    decodeCalls,  \* from_value invocations in total
    readyCount,   \* polls of the CallFuture that returned Ready
    polls,        \* polls of the CallFuture
    \* to_results_from_outputs, to_result_from_output
    outputs,      \* the Vec<rpc::Output> argument
    batchResult,  \* what to_results_from_outputs(outputs) returned
    singleIn,     \* the rpc::Output argument of to_result_from_output
    singleOut,    \* what to_result_from_output(singleIn) returned
    \* build_request
    buildArgs,    \* the arguments [id, method, params]
    built,        \* the rpc::Call returned
    \* TestTransport
    requests,     \* Vec<(String, Vec<rpc::Value>)>
    responses,    \* VecDeque<rpc::Value>
    inflight,     \* the (RequestId, Call) pairs prepared and not yet sent
    lastSend,     \* what the future returned by the latest send resolves to
    lastOp,       \* the latest operation on the transport, with its argument
    queued,       \* the values queued since the latest set_response, in order
    delivered     \* the values sends returned since the latest set_response

futureVars ==
    <<target, futState, innerState, lastInner, lastOut, lastCalls, decodeCalls,
      readyCount, polls>>
interpVars == <<outputs, batchResult, singleIn, singleOut>>
buildVars == <<buildArgs, built>>
transportVars == <<requests, responses, inflight, lastSend, lastOp, queued, delivered>>
vars == <<scenario, futureVars, interpVars, buildVars, transportVars>>

None == <<"None">>
Panic == <<"Panic">>

\* What polling the inner future can return. F is any Future, so at every
\* poll, whatever it returned before, it may be Pending, be Ready with a
\* result, or panic: polled again after it completed it may panic
\* (futures::future::Ready), stay Pending (a fused future) or return Ready
\* again (futures::future::poll_fn), and a future handed over already
\* completed panics at the first poll.
InnerPollOutcomes(st) ==
    {Pending, Panic} \cup {Ready(r) : r \in InnerResults}

\* No CallFuture exists.
FutureIdle ==
    /\ target = "bool"
    /\ futState = "none"
    /\ innerState = "none"
    /\ lastInner = None
    /\ lastOut = None
    /\ lastCalls = 0
    /\ decodeCalls = 0
    /\ readyCount = 0
    /\ polls = 0

\* CallFuture::new(inner): a future for some T over an inner future that
\* has not been polled.
FutureNew ==
    /\ target \in TargetTypes
    /\ futState = "alive"
    /\ innerState = "pending"
    /\ lastInner = None
    /\ lastOut = None
    /\ lastCalls = 0
    /\ decodeCalls = 0
    /\ readyCount = 0
    /\ polls = 0

\* No interpreter call is made.
InterpIdle ==
    /\ outputs = <<>>
    /\ batchResult = None
    /\ singleIn = None
    /\ singleOut = None

\* The outputs of a batch response, before they are interpreted.
InterpInputs ==
    /\ outputs \in SeqsUpTo(Outputs, MaxBatch)
    /\ batchResult = None
    /\ singleIn = None
    /\ singleOut = None

\* No request is built.
BuildIdle ==
    /\ buildArgs = None
    /\ built = None

\* The arguments of a build_request call, before the call.
BuildInputs ==
    /\ buildArgs \in [id : BuildIds, method : BuildMethods,
                      params : SeqsUpTo(BuildValues, MaxParams)]
    /\ built = None

\* TestTransport::default()
TransportDefault ==
    /\ requests = <<>>
    /\ responses = <<>>
    /\ inflight = {}
    /\ lastSend = None
    /\ lastOp = None
    /\ queued = <<>>
    /\ delivered = <<>>

Init ==
    \/ scenario = "future" /\ FutureNew /\ InterpIdle /\ BuildIdle /\ TransportDefault
    \/ scenario = "interp" /\ FutureIdle /\ InterpInputs /\ BuildIdle /\ TransportDefault
    \/ scenario = "build" /\ FutureIdle /\ InterpIdle /\ BuildInputs /\ TransportDefault
    \/ scenario = "transport" /\ FutureIdle /\ InterpIdle /\ BuildIdle /\ TransportDefault

\* One call of CallFuture::poll by the owner of the future.
Poll ==
    /\ futState = "alive"
    /\ polls < MaxPolls
    /\ \E o \in InnerPollOutcomes(innerState) :
         /\ lastInner' = o
         /\ polls' = polls + 1
         /\ IF o = Panic
            THEN \* the panic of the inner poll unwinds through CallFuture::poll,
                 \* which keeps no state: a caller that catches the unwind
                 \* still holds the CallFuture and may poll it again
                 /\ lastOut' = Panic
                 /\ lastCalls' = 0
                 /\ UNCHANGED <<futState, innerState, decodeCalls, readyCount>>
            ELSE LET p == CallFuturePoll(o, target)
                 IN  /\ lastOut' = p.ret
                     /\ lastCalls' = p.calls
                     /\ decodeCalls' = decodeCalls + p.calls
                     /\ readyCount' = readyCount + (IF IsReady(p.ret) THEN 1 ELSE 0)
                     /\ innerState' = IF IsReady(o) THEN "completed" ELSE innerState
                     /\ UNCHANGED futState
    /\ UNCHANGED <<scenario, target, interpVars, buildVars, transportVars>>

\* A faulty variant of Drop: the CallFuture holds its inner future by a shared
\* handle, so dropping the CallFuture leaves the inner future alive.
Drop_LeaksInner ==
    /\ futState = "alive"
    /\ futState' = "dropped"
    /\ UNCHANGED <<scenario, target, innerState, lastInner, lastOut, lastCalls,
                   decodeCalls, readyCount, polls, interpVars, buildVars,
                   transportVars>>

\* The owner drops the CallFuture: the struct owns inner, which is dropped
\* with it. A dropped value cannot be polled.
Drop ==
    /\ futState = "alive"
    /\ futState' = "dropped"
    /\ innerState' = "dropped"
    /\ UNCHANGED <<scenario, target, lastInner, lastOut, lastCalls, decodeCalls,
                   readyCount, polls, interpVars, buildVars, transportVars>>

\* A call of to_results_from_outputs on the batch.
InterpretBatch ==
    /\ scenario = "interp"
    /\ batchResult = None
    /\ batchResult' = to_results_from_outputs(outputs)
    /\ UNCHANGED <<scenario, futureVars, outputs, singleIn, singleOut, buildVars,
                   transportVars>>

\* A call of to_result_from_output on one output of the batch.
InterpretOutput ==
    /\ scenario = "interp"
    /\ \E i \in 1..Len(outputs) :
         /\ singleIn' = outputs[i]
         /\ singleOut' = to_result_from_output(outputs[i])
    /\ UNCHANGED <<scenario, futureVars, outputs, batchResult, buildVars, transportVars>>

\* A call of build_request.
BuildRequest ==
    /\ scenario = "build"
    /\ built = None
    /\ built' = build_request(buildArgs.id, buildArgs.method, buildArgs.params)
    /\ UNCHANGED <<scenario, futureVars, interpVars, buildArgs, transportVars>>

\* TestTransport::prepare(method, params)
Prepare ==
    /\ scenario = "transport"
    /\ Len(requests) < MaxRequests
    /\ \E method \in TransportMethods, params \in TransportParams :
         LET p == prepare(requests, method, params)
         IN  /\ requests' = p.requests
             /\ inflight' = inflight \cup {[id |-> p.id, call |-> p.call]}
             /\ lastOp' = <<"prepare", p.id>>
    /\ UNCHANGED <<scenario, futureVars, interpVars, buildVars, responses, lastSend,
                   queued, delivered>>

\* TestTransport::send(id, request): the arguments are only printed, so any
\* pair may be sent, prepared here or not; a prepared one is then answered.
Send ==
    /\ scenario = "transport"
    /\ \E c \in inflight \cup {Unprepared} :
         LET popped == pop_front(responses)
             result == send_result(popped.item)
         IN  /\ responses' = popped.rest
             /\ lastSend' = result
             /\ inflight' = inflight \ {c}
             /\ lastOp' = <<"send", Len(responses)>>
             /\ delivered' = IF IsOk(result) THEN Append(delivered, result[2])
                             ELSE delivered
    /\ UNCHANGED <<scenario, futureVars, interpVars, buildVars, requests, queued>>

\* TestTransport::set_response(value)
SetResponse ==
    /\ scenario = "transport"
    /\ \E value \in TransportValues :
         /\ responses' = <<value>>
         /\ lastOp' = <<"set_response", value>>
         /\ queued' = <<value>>
         /\ delivered' = <<>>
    /\ UNCHANGED <<scenario, futureVars, interpVars, buildVars, requests, inflight,
                   lastSend>>

\* TestTransport::add_response(value)
AddResponse ==
    /\ scenario = "transport"
    /\ Len(queued) < MaxQueue
    /\ \E value \in TransportValues :
         /\ responses' = push_back(responses, value)
         /\ lastOp' = <<"add_response", value>>
         /\ queued' = Append(queued, value)
    /\ UNCHANGED <<scenario, futureVars, interpVars, buildVars, requests, inflight,
                   lastSend, delivered>>

Next ==
    \/ Poll
    \/ Drop
    \/ InterpretBatch
    \/ InterpretOutput
    \/ BuildRequest
    \/ Prepare
    \/ Send
    \/ SetResponse
    \/ AddResponse

Spec == Init /\ [][Next]_vars

\* ----------------------------------------------------------------- claims

\* C1: whenever a poll finds the inner future Pending, CallFuture::poll
\* returns Pending in that poll and does not call from_value; as long as the
\* inner future has not completed, nothing was decoded and nothing returned
\* Ready.
C1_PendingPropagates ==
    /\ (futState # "none" /\ lastInner = Pending) =>
           (lastOut = Pending /\ lastCalls = 0)
    /\ innerState = "pending" =>
           (decodeCalls = 0 /\ readyCount = 0 /\ lastOut \in {None, Pending, Panic})

\* C1's case: a second poll in a row that found the inner future Pending.
C1_Witness ==
    /\ innerState = "pending"
    /\ polls >= 2
    /\ lastInner = Pending
    /\ lastOut = Pending

\* C2: when the inner future completes with an error, that poll returns
\* Ready with exactly that error and does not call from_value; a first
\* resolution of this kind leaves the call without any decode.
C2_ErrorPassesThrough ==
    (IsReady(lastInner) /\ IsErr(lastInner[2])) =>
        /\ lastOut = lastInner
        /\ lastCalls = 0
        /\ readyCount = 1 => decodeCalls = 0

\* C2's case: the inner future was Pending, then failed in the transport.
C2_Witness ==
    /\ polls >= 2
    /\ readyCount = 1
    /\ lastInner = Ready(Err(ErrTransport("timeout")))
    /\ lastOut = Ready(Err(ErrTransport("timeout")))

\* C3: when the inner future completes with a wire value, from_value is
\* called exactly once, in that poll and not before, and the poll returns
\* the typed value when the wire value fits the target type and a Decoder
\* error when it does not, never a substitute value.
C3_DecodeOnceAtResolution ==
    /\ innerState = "pending" => decodeCalls = 0
    /\ (IsReady(lastInner) /\ IsOk(lastInner[2])) =>
         LET v == lastInner[2][2]
             fits ==
                 \/ target = "bool" /\ v[1] = "Bool"
                 \/ target = "u64" /\ v[1] = "Number" /\ v[2] >= 0
                 \/ target = "u8" /\ v[1] = "Number" /\ v[2] >= 0 /\ v[2] <= 255
                 \/ target = "String" /\ v[1] = "String"
         IN  /\ lastCalls = 1
             /\ readyCount = 1 => decodeCalls = 1
             /\ IsReady(lastOut)
             /\ IF fits
                THEN lastOut[2] = Ok(<<target, v[2]>>)
                ELSE IsErr(lastOut[2]) /\ lastOut[2][2][1] = "Decoder"

\* C3's case: after a Pending poll the inner future yields 300 for a u8
\* target, which is decoded once and fails.
C3_Witness ==
    /\ polls >= 2
    /\ target = "u8"
    /\ lastInner = Ready(Ok(Number(300)))
    /\ decodeCalls = 1
    /\ IsReady(lastOut)
    /\ IsErr(lastOut[2])

\* C4 as stated: once the CallFuture has returned Ready, no later step
\* decodes again or returns Ready again, whatever the inner future does.
C4_SingleResolution_AsStated ==
    [][readyCount >= 1 =>
          (decodeCalls' = decodeCalls /\ readyCount' = readyCount)]_vars

\* C4, amended: once the CallFuture has returned Ready, a later poll decodes
\* nothing and returns no Ready provided the inner future, polled again, does
\* not report Ready again; if it does, CallFuture::poll returns Ready again
\* and decodes again when that result is Ok.
C4_SingleResolution_Amended ==
    [][(readyCount >= 1 /\ polls' = polls + 1) =>
          IF IsReady(lastInner')
          THEN /\ IsReady(lastOut')
               /\ readyCount' = readyCount + 1
               /\ decodeCalls' =
                      decodeCalls + (IF IsOk(lastInner'[2]) THEN 1 ELSE 0)
          ELSE /\ ~IsReady(lastOut')
               /\ readyCount' = readyCount
               /\ decodeCalls' = decodeCalls]_vars

\* C4's case: a resolved CallFuture was polled again and its inner future
\* reported Pending.
C4_Witness ==
    /\ innerState = "completed"
    /\ readyCount >= 1
    /\ polls > readyCount
    /\ lastInner = Pending
    /\ lastOut = Pending

\* C5: to_results_from_outputs returns Ok of a vector as long as its input,
\* whose i-th element is Ok of the i-th output's result for a success and
\* Err(Rpc(error)) of the i-th output's error for a failure, whatever the
\* other outputs are.
C5_BatchOrderPreserved ==
    batchResult # None =>
        /\ IsOk(batchResult)
        /\ Len(batchResult[2]) = Len(outputs)
        /\ \A i \in 1..Len(outputs) :
             /\ outputs[i][1] = "Success" =>
                    batchResult[2][i] = Ok(outputs[i][2].result)
             /\ outputs[i][1] = "Failure" =>
                    batchResult[2][i] = Err(ErrRpc(outputs[i][2].error))

\* C5's case: an interpreted batch of three whose first output is a failure
\* and whose second is a success.
C5_Witness ==
    /\ batchResult # None
    /\ Len(outputs) = 3
    /\ outputs[1][1] = "Failure"
    /\ outputs[2][1] = "Success"
    /\ IsErr(batchResult[2][1])
    /\ IsOk(batchResult[2][2])

\* C6: to_result_from_output returns Ok of the result of a success output,
\* and for a failure output an Err of the Rpc variant holding the output's
\* error with its code, message and data as they were.
C6_OutputInterpretation ==
    singleIn # None =>
        IF singleIn[1] = "Success"
        THEN singleOut = Ok(singleIn[2].result)
        ELSE /\ IsErr(singleOut)
             /\ singleOut[2][1] = "Rpc"
             /\ singleOut[2][2].code = singleIn[2].error.code
             /\ singleOut[2][2].message = singleIn[2].error.message
             /\ singleOut[2][2].data = singleIn[2].error.data

\* C6's case: a failure output that carries data was interpreted.
C6_Witness ==
    /\ singleIn[1] = "Failure"
    /\ singleIn[2].error.data # NoneOpt
    /\ singleIn[2].error.code = -32000
    /\ IsErr(singleOut)

\* C7: a CallFuture dropped before it returned Ready has decoded nothing, has
\* returned no Ready, and its inner future is dropped with it; nothing about a
\* dropped CallFuture changes afterwards.
C7_DropBeforeResolution ==
    /\ []((futState = "dropped" /\ readyCount = 0) =>
             (decodeCalls = 0 /\ innerState = "dropped" /\ ~IsReady(lastOut)))
    /\ [][futState = "dropped" => UNCHANGED futureVars]_vars

\* C7's case: a CallFuture dropped after a poll that returned Pending.
C7_Witness ==
    /\ futState = "dropped"
    /\ readyCount = 0
    /\ polls >= 1
    /\ lastOut = Pending

\* C8: no two calls prepared on the transport and not yet sent carry the same
\* id in their Call.
C8_UniqueCallIds ==
    \A a \in inflight : \A b \in inflight :
        a # b => a.call[2].id # b.call[2].id

\* C9: build_request returns a MethodCall with version 2.0, the given method,
\* the given params in the given order in an Array, and the given id as a
\* number; the call touches no transport.
C9_BuildRequestShape ==
    built # None =>
        /\ built[1] = "MethodCall"
        /\ built[2].jsonrpc = Some("2.0")
        /\ built[2].method = buildArgs.method
        /\ built[2].params[1] = "Array"
        /\ Len(built[2].params[2]) = Len(buildArgs.params)
        /\ \A i \in 1..Len(buildArgs.params) :
               built[2].params[2][i] = buildArgs.params[i]
        /\ built[2].id = <<"Num", buildArgs.id>>
        /\ requests = <<>> /\ responses = <<>> /\ inflight = {}

\* C9's case: a request built from a large id and two different params.
C9_Witness ==
    /\ built # None
    /\ buildArgs.id = 65536
    /\ Len(buildArgs.params) = 2
    /\ buildArgs.params[1] # buildArgs.params[2]

\* C10: the values queued since the latest set_response are, in order, those
\* the sends returned followed by those still queued; a send on an empty
\* queue resolves to Unreachable and leaves the queue empty, any other send
\* resolves to Ok and shortens the queue by one; set_response leaves exactly
\* its value; add_response puts its value last.
C10_QueueIsFifo ==
    /\ queued = delivered \o responses
    /\ lastOp[1] = "set_response" => responses = <<lastOp[2]>>
    /\ lastOp[1] = "add_response" =>
           (responses # <<>> /\ responses[Len(responses)] = lastOp[2])
    /\ lastOp[1] = "send" =>
           IF lastOp[2] = 0
           THEN lastSend = Err(ErrUnreachable) /\ responses = <<>>
           ELSE /\ IsOk(lastSend)
                /\ delivered # <<>>
                /\ lastSend[2] = delivered[Len(delivered)]
                /\ Len(responses) = lastOp[2] - 1

\* C10's case: two sends returned two different queued values.
C10_Witness ==
    /\ lastOp[1] = "send"
    /\ Len(delivered) = 2
    /\ delivered[1] # delivered[2]
    /\ queued = delivered
====
